---- MODULE Spec2Model ----
(***************************************************************************)
(* Model of the Fashion MNIST classifier demo:                             *)
(*   - the "predict" edge function (superbase/functions/predict/index.ts), *)
(*     a request handler with three await points;                          *)
(*   - the upload page (src/App.tsx), its React state and handleSubmit.    *)
(*                                                                         *)
(* Numbers that are floats in the program are kept as exact rationals      *)
(* [num, den]; strings that the program inspects (startsWith) are          *)
(* sequences of characters; Math.random() is a nondeterministic draw of    *)
(* k / RandRes, k \in 0..RandRes-1.                                        *)
(***************************************************************************)
EXTENDS Integers, Sequences, FiniteSets, TLC

VARIABLES req, pc, resp, calls, preprocessedImage,
          selectedFile, prediction, loading, error, submits, lastEvent

\* The edge function: one handler invocation per slot.
srvVars == <<req, pc, resp, calls, preprocessedImage>>
\* The upload page: React state, the handleSubmit invocations in flight, and
\* the name of the handler or continuation that ran last.
uiVars == <<selectedFile, prediction, loading, error, submits, lastEvent>>

\* ------------------------------------------------------------------ bounds
\* Number of requests the runtime handles concurrently.
MaxReq == 2
\* Resolution of Math.random(): it returns k / RandRes for k in 0..RandRes-1.
RandRes == 3
\* Number of handleSubmit invocations that may be awaiting at once.
MaxInFlight == 2

Slots == 1..MaxReq

\* ------------------------------------------------------------- program data
corsHeaders ==
    ("Access-Control-Allow-Origin" :> "*")
    @@ ("Access-Control-Allow-Methods" :> "GET, POST, PUT, DELETE, OPTIONS")
    @@ ("Access-Control-Allow-Headers" :> "Content-Type, Authorization")

classNames ==
    << "T-shirt/top", "Trouser", "Pullover", "Dress", "Coat",
       "Sandal", "Shirt", "Sneaker", "Bag", "Ankle boot" >>

\* new Float32Array(784)
FeatureLen == 784

\* { ...corsHeaders, "Content-Type": "application/json" }
JsonHeaders == ("Content-Type" :> "application/json") @@ corsHeaders

\* ------------------------------------------------------------------ inputs
ImagePrefix == << "i", "m", "a", "g", "e", "/" >>

\* Declared content types (File.type) that begin with "image/" ...
ImageTypes == { ImagePrefix \o << "p", "n", "g" >> }

\* ... and ones that do not: another type, "image/" further in, no type.
OtherTypes ==
    { << "t", "e", "x", "t", "/", "p", "l", "a", "i", "n" >>,
      << "x" >> \o ImagePrefix,
      << >> }

\* The eight-byte PNG signature; as a whole upload it is a PNG header whose
\* body (IHDR .. IEND) is missing.
PngSignature == << 137, 80, 78, 71, 13, 10, 26, 10 >>

\* Contents of an uploaded File.
ImageBuffers == { PngSignature, << 71, 73, 70 >> }

File(t, b) == [kind |-> "file", type |-> t, bytes |-> b]

\* What formData.get("image") can return: null, a string, or a File.
FormEntries ==
    { [kind |-> "null"] }
    \cup { [kind |-> "string", value |-> v] : v \in { << >>, << "x" >> } }
    \cup { File(t, b) : t \in ImageTypes, b \in ImageBuffers }
    \cup { File(t, PngSignature) : t \in OtherTypes }

\* A request: its method and, for a body, whether it parses as form data.
Requests ==
    { [method |-> m, parses |-> FALSE, image |-> [kind |-> "null"]] :
        m \in { "OPTIONS", "GET" } }
    \cup { [method |-> "POST", parses |-> FALSE, image |-> [kind |-> "null"]] }
    \cup { [method |-> "POST", parses |-> TRUE, image |-> e] : e \in FormEntries }

NoRequest == [method |-> "none"]
NoResponse == [status |-> 0]
NoImage == << >>

\* ----------------------------------------------------------------- helpers
\* String.prototype.includes(p): p occurs somewhere in s.
Includes(s, p) ==
    \E k \in 0..(Len(s) - Len(p)) : SubSeq(s, k + 1, k + Len(p)) = p

\* String.prototype.startsWith(p)
StartsWith(s, p) == Len(s) >= Len(p) /\ SubSeq(s, 1, Len(p)) = p

\* JavaScript truthiness of a form entry: null and "" are falsy.
Truthy(e) ==
    CASE e.kind = "null" -> FALSE
      [] e.kind = "string" -> Len(e.value) > 0
      [] OTHER -> TRUE

\* Math.floor(Math.random() * classNames.length), with Math.random() = k / RandRes
RandomIndex(k) == (k * Len(classNames)) \div RandRes

\* The confidence as a percentage, 70 + Math.random() * 30.
RandomConfidencePercent(k) ==
    [num |-> 100 * (7 * RandRes + 3 * k), den |-> 10 * RandRes]

\* 0.7 + Math.random() * 0.3, with Math.random() = k / RandRes
RandomConfidence(k) == [num |-> 7 * RandRes + 3 * k, den |-> 10 * RandRes]

\* mockPrediction(imageBuffer); k1 and k2 are the two Math.random() draws.
mockPrediction(imageBuffer, k1, k2) ==
    [kind |-> "prediction",
     predicted_class |-> classNames[RandomIndex(k1) + 1],
     confidence |-> RandomConfidence(k2)]

\* A 784-vector of 8-bit intensities that were never divided by 255.
preprocessImageRaw(imageBuffer) ==
    [n \in 1..FeatureLen |-> [num |-> 128, den |-> 1]]

\* preprocessImage(imageBuffer): new Float32Array(784).fill(0.5)
preprocessImage(imageBuffer) ==
    [n \in 1..FeatureLen |-> [num |-> 1, den |-> 2]]

\* ---------------------------------------------------------------- responses
Response(status, headers, body) ==
    [status |-> status, headers |-> headers, body |-> body]

ErrorBody(msg) == [kind |-> "error", error |-> msg]

PreflightResponse == Response(200, corsHeaders, [kind |-> "empty"])

\* The 405 response without the spread of corsHeaders.
MethodNotAllowedNoCors ==
    Response(405, ("Content-Type" :> "application/json"),
             ErrorBody("Method not allowed"))

MethodNotAllowedResponse ==
    Response(405, JsonHeaders, ErrorBody("Method not allowed"))

NoImageResponse ==
    Response(400, JsonHeaders, ErrorBody("No image file provided"))

InvalidTypeResponse ==
    Response(400, JsonHeaders,
             ErrorBody("Invalid file type. Please upload an image."))

PredictionResponse(body) == Response(200, JsonHeaders, body)

\* The catch block's response; message is error.message.
InternalErrorResponse(message) ==
    Response(500, JsonHeaders,
             [kind |-> "error", error |-> "Internal server error",
              message |-> message])

\* ------------------------------------------------------------ the upload page
Invocations == 1..MaxInFlight

\* useState<File | null>(null), useState<PredictionResult | null>(null)
NoFile == [kind |-> "null"]
NoPrediction == [kind |-> "null"]

\* Files the user can pick or drop.
UserFiles ==
    { File(t, PngSignature) :
        t \in { ImagePrefix \o << "p", "n", "g" >>,
                << "t", "e", "x", "t", "/", "p", "l", "a", "i", "n" >> } }

\* A FileList: empty, or led by one of the user's files.
FileLists == { << >> } \cup { << f >> : f \in UserFiles }

\* Status codes the endpoint (or a gateway in front of it) answers with.
Statuses == { 200, 400, 405, 500 }

\* Bodies response.json() can parse to.
JsonResults ==
    { mockPrediction(PngSignature, 0, 0),
      mockPrediction(PngSignature, RandRes - 1, RandRes - 1) }

\* Response.ok
Ok(status) == 200 <= status /\ status <= 299

\* A handleSubmit invocation: where it is suspended and what its awaited
\* promise settled to.
Idle == [at |-> "idle"]
AwaitingFetch == [at |-> "fetch", settled |-> FALSE]
AwaitingJson == [at |-> "json", settled |-> FALSE]

\* -------------------------------------------------------------------- state
Init ==
    /\ req = [i \in Slots |-> NoRequest]
    /\ pc = [i \in Slots |-> "idle"]
    /\ resp = [i \in Slots |-> NoResponse]
    /\ calls = [i \in Slots |-> << >>]
    /\ preprocessedImage = [i \in Slots |-> NoImage]
    /\ selectedFile = NoFile
    /\ prediction = NoPrediction
    /\ loading = FALSE
    /\ error = ""
    /\ submits = [j \in Invocations |-> Idle]
    /\ lastEvent = "none"

\* The runtime hands a request to a fresh invocation of the handler.
Receive(i) ==
    /\ pc[i] = "idle"
    /\ \E r \in Requests : req' = [req EXCEPT ![i] = r]
    /\ pc' = [pc EXCEPT ![i] = "start"]
    /\ UNCHANGED <<resp, calls, preprocessedImage>>
    /\ UNCHANGED uiVars

Finish(i, r) ==
    /\ resp' = [resp EXCEPT ![i] = r]
    /\ pc' = [pc EXCEPT ![i] = "done"]

\* Handler entry up to `await req.formData()`.
HandleStart(i) ==
    /\ pc[i] = "start"
    /\ IF req[i].method = "OPTIONS"
         THEN Finish(i, PreflightResponse)
         ELSE IF req[i].method # "POST"
                THEN Finish(i, MethodNotAllowedResponse)
                ELSE /\ pc' = [pc EXCEPT ![i] = "formData"]
                     /\ UNCHANGED resp
    /\ UNCHANGED <<req, calls, preprocessedImage>>
    /\ UNCHANGED uiVars

\* formData() settles; the handler runs up to `await imageFile.arrayBuffer()`.
\* A rejected formData() and the TypeError of `undefined.startsWith` (the
\* entry is a string: it has no `type`) both land in the catch block.
AfterFormData(i) ==
    /\ pc[i] = "formData"
    /\ LET imageFile == req[i].image IN
       IF ~req[i].parses
         THEN Finish(i, InternalErrorResponse("formData: body is not form data"))
         ELSE IF ~Truthy(imageFile)
                THEN Finish(i, NoImageResponse)
                ELSE IF imageFile.kind # "file"
                       THEN Finish(i, InternalErrorResponse(
                                "imageFile.type is undefined"))
                       ELSE IF ~StartsWith(imageFile.type, ImagePrefix)
                              THEN Finish(i, InvalidTypeResponse)
                              ELSE /\ pc' = [pc EXCEPT ![i] = "arrayBuffer"]
                                   /\ UNCHANGED resp
    /\ UNCHANGED <<req, calls, preprocessedImage>>
    /\ UNCHANGED uiVars

\* arrayBuffer() settles; preprocessImage is called and awaited.
AfterArrayBuffer(i) ==
    /\ pc[i] = "arrayBuffer"
    /\ LET imageBuffer == req[i].image.bytes IN
       /\ calls' = [calls EXCEPT ![i] = Append(@, "preprocessImage")]
       /\ preprocessedImage' =
            [preprocessedImage EXCEPT ![i] = preprocessImage(imageBuffer)]
    /\ pc' = [pc EXCEPT ![i] = "preprocess"]
    /\ UNCHANGED <<req, resp>>
    /\ UNCHANGED uiVars

\* preprocessImage settles; mockPrediction is called and the handler returns
\* the response built from its result (its locals die with the return).
AfterPreprocess(i) ==
    /\ pc[i] = "preprocess"
    /\ \E k1, k2 \in 0..(RandRes - 1) :
         LET imageBuffer == req[i].image.bytes
             predicted == mockPrediction(imageBuffer, k1, k2)
         IN Finish(i, PredictionResponse(predicted))
    /\ calls' = [calls EXCEPT ![i] = Append(@, "mockPrediction")]
    /\ preprocessedImage' = [preprocessedImage EXCEPT ![i] = NoImage]
    /\ UNCHANGED req
    /\ UNCHANGED uiVars

\* The response is sent; the invocation is over.
Respond(i) ==
    /\ pc[i] = "done"
    /\ req' = [req EXCEPT ![i] = NoRequest]
    /\ pc' = [pc EXCEPT ![i] = "idle"]
    /\ resp' = [resp EXCEPT ![i] = NoResponse]
    /\ calls' = [calls EXCEPT ![i] = << >>]
    /\ UNCHANGED preprocessedImage
    /\ UNCHANGED uiVars

\* handleFileSelect(file); the FileReader preview (previewUrl) is left out.
FileSelected(file) ==
    /\ selectedFile' = file
    /\ error' = ""
    /\ prediction' = NoPrediction

handleDrop ==
    /\ \E files \in FileLists :
         IF Len(files) > 0
           THEN IF StartsWith(files[1].type, ImagePrefix)
                  THEN FileSelected(files[1])
                  ELSE /\ error' = "Please select an image file"
                       /\ UNCHANGED <<selectedFile, prediction>>
           ELSE UNCHANGED <<selectedFile, prediction, error>>
    /\ lastEvent' = "handleDrop"
    /\ UNCHANGED <<loading, submits>>
    /\ UNCHANGED srvVars

handleFileInput ==
    /\ \E files \in FileLists :
         IF Len(files) > 0
           THEN FileSelected(files[1])
           ELSE UNCHANGED <<selectedFile, prediction, error>>
    /\ lastEvent' = "handleFileInput"
    /\ UNCHANGED <<loading, submits>>
    /\ UNCHANGED srvVars

\* handleSubmit up to `await fetch(...)`.  With a file selected it needs an
\* invocation slot (the bound on invocations in flight).
handleSubmit ==
    /\ IF selectedFile = NoFile
         THEN /\ error' = "Please select an image first"
              /\ UNCHANGED <<loading, submits>>
         ELSE /\ \E j \in Invocations :
                   /\ submits[j] = Idle
                   /\ submits' = [submits EXCEPT ![j] = AwaitingFetch]
              /\ loading' = TRUE
              /\ error' = ""
    /\ lastEvent' = "handleSubmit"
    /\ UNCHANGED <<selectedFile, prediction>>
    /\ UNCHANGED srvVars

\* The network settles an awaited promise: fetch resolves with a response
\* or rejects; response.json() resolves with a value or rejects.
Settle(j) ==
    /\ submits[j].at \in { "fetch", "json" }
    /\ ~submits[j].settled
    /\ \/ submits' = [submits EXCEPT ![j] =
                        [at |-> @.at, settled |-> TRUE, rejected |-> TRUE]]
       \/ /\ submits[j].at = "fetch"
          /\ \E s \in Statuses :
               submits' = [submits EXCEPT ![j] =
                  [at |-> "fetch", settled |-> TRUE, rejected |-> FALSE,
                   status |-> s]]
       \/ /\ submits[j].at = "json"
          /\ \E r \in JsonResults :
               submits' = [submits EXCEPT ![j] =
                  [at |-> "json", settled |-> TRUE, rejected |-> FALSE,
                   result |-> r]]
    /\ lastEvent' = "settle"
    /\ UNCHANGED <<selectedFile, prediction, loading, error>>
    /\ UNCHANGED srvVars

\* The catch block alone: no finally, loading is left as it is.
CatchWithoutFinally(j) ==
    /\ error' = "Failed to classify image. Please try again."
    /\ submits' = [submits EXCEPT ![j] = Idle]
    /\ UNCHANGED <<selectedFile, prediction, loading>>

\* catch { setError(...) } finally { setLoading(false) }
CatchFinally(j) ==
    /\ error' = "Failed to classify image. Please try again."
    /\ loading' = FALSE
    /\ submits' = [submits EXCEPT ![j] = Idle]
    /\ UNCHANGED <<selectedFile, prediction>>

\* handleSubmit resumes after `await fetch(...)` and runs up to
\* `await response.json()`, or through catch and finally.
AfterFetch(j) ==
    /\ submits[j].at = "fetch"
    /\ submits[j].settled
    /\ IF submits[j].rejected
         THEN CatchFinally(j)
         ELSE IF ~Ok(submits[j].status)
                THEN CatchFinally(j)
                ELSE /\ submits' = [submits EXCEPT ![j] = AwaitingJson]
                     /\ UNCHANGED <<selectedFile, prediction, loading, error>>
    /\ lastEvent' = "afterFetch"
    /\ UNCHANGED srvVars

\* handleSubmit resumes after `await response.json()` and runs to its end.
AfterJson(j) ==
    /\ submits[j].at = "json"
    /\ submits[j].settled
    /\ IF submits[j].rejected
         THEN CatchFinally(j)
         ELSE /\ prediction' = submits[j].result
              /\ loading' = FALSE
              /\ submits' = [submits EXCEPT ![j] = Idle]
              /\ UNCHANGED <<selectedFile, error>>
    /\ lastEvent' = "afterJson"
    /\ UNCHANGED srvVars

\* -------------------------------------------------------------- specifications
vars == <<srvVars, uiVars>>

Next ==
    \E i \in Slots :
        \/ Receive(i)
        \/ HandleStart(i)
        \/ AfterFormData(i)
        \/ AfterArrayBuffer(i)
        \/ AfterPreprocess(i)
        \/ Respond(i)

\* The edge function serving requests.
Spec == Init /\ [][Next]_vars

UINext ==
    \/ handleDrop
    \/ handleFileInput
    \/ handleSubmit
    \/ \E j \in Invocations :
        \/ Settle(j)
        \/ AfterFetch(j)
        \/ AfterJson(j)

\* The upload page.  A settled promise's continuation is a job the event loop
\* runs; whether the network ever settles a request is not assumed.
UISpec ==
    /\ Init
    /\ [][UINext]_vars
    /\ \A j \in Invocations : WF_vars(AfterFetch(j)) /\ WF_vars(AfterJson(j))

\* ------------------------------------------------------------------ claims
\* A finished invocation that classified an upload.
Classified(i) ==
    /\ pc[i] = "done"
    /\ resp[i].status = 200
    /\ resp[i].body.kind = "prediction"

\* A POST whose form parsed and whose "image" entry is a File.
FileUpload(i) ==
    /\ req[i].method = "POST"
    /\ req[i].parses
    /\ req[i].image.kind = "file"

\* C1: classification is deterministic: two classify requests carrying the
\* same image bytes, handled one after the other or at once, get the same
\* predicted class and the same confidence.
C1_ClassifyDeterministic ==
    \A i, j \in Slots :
        (Classified(i) /\ Classified(j)
            /\ req[i].image.bytes = req[j].image.bytes)
        => /\ resp[i].body.predicted_class = resp[j].body.predicted_class
           /\ resp[i].body.confidence = resp[j].body.confidence

\* C2: an upload that is a PNG header with its body cut off is answered with
\* a CorruptData error and never with a response carrying a class label.
C2_CorruptDataSurfaced ==
    \A i \in Slots :
        (pc[i] = "done" /\ FileUpload(i)
            /\ req[i].image.type = ImagePrefix \o << "p", "n", "g" >>
            /\ req[i].image.bytes = << 137, 80, 78, 71, 13, 10, 26, 10 >>)
        => /\ resp[i].body.kind = "error"
           /\ resp[i].body.error = "CorruptData"

\* C3: every prediction the service returns names one of the ten classes
\* and has a confidence in [0, 1].
C3_PredictionWellFormed ==
    \A i \in Slots :
        (pc[i] = "done" /\ resp[i].body.kind = "prediction")
        => /\ resp[i].body.predicted_class \in
                { "T-shirt/top", "Trouser", "Pullover", "Dress", "Coat",
                  "Sandal", "Shirt", "Sneaker", "Bag", "Ankle boot" }
           /\ resp[i].body.confidence.den > 0
           /\ 0 <= resp[i].body.confidence.num
           /\ resp[i].body.confidence.num <= resp[i].body.confidence.den

\* C3 witness: a returned prediction with a class other than the first and
\* a confidence above the 0.7 floor.
C3_Witness ==
    \E i \in Slots :
        /\ Classified(i)
        /\ resp[i].body.predicted_class # "T-shirt/top"
        /\ 10 * resp[i].body.confidence.num > 7 * resp[i].body.confidence.den

\* C4: whatever the image buffer, preprocessing yields exactly 784 values,
\* each in [0.0, 1.0].
C4_FeatureVectorShape ==
    \A i \in Slots :
        pc[i] = "preprocess"
        => LET features == preprocessedImage[i] IN
           /\ Len(features) = 784
           /\ \A v \in { features[n] : n \in 1..Len(features) } :
                v.den > 0 /\ 0 <= v.num /\ v.num <= v.den

\* C4 witness: two uploads of different sizes have both been preprocessed.
C4_Witness ==
    \E i, j \in Slots :
        /\ pc[i] = "preprocess" /\ pc[j] = "preprocess"
        /\ Len(req[i].image.bytes) # Len(req[j].image.bytes)
        /\ Len(preprocessedImage[i]) = 784
        /\ Len(preprocessedImage[j]) = 784

\* The declared type does not begin with "image/".
NotImageType(t) ==
    \/ Len(t) < 6
    \/ SubSeq(t, 1, 6) # << "i", "m", "a", "g", "e", "/" >>

\* C5: for a POST whose uploaded file's declared type does not start with
\* "image/", neither preprocessImage nor mockPrediction is ever called and
\* the answer is 400.
C5_TypeCheckedBeforeCore ==
    \A i \in Slots :
        (FileUpload(i) /\ NotImageType(req[i].image.type))
        => /\ calls[i] = << >>
           /\ preprocessedImage[i] = << >>
           /\ pc[i] = "done" => resp[i].status = 400

\* C5 witness: an upload declared "ximage/" (the prefix is there, but not
\* at the start) has been answered.
C5_Witness ==
    \E i \in Slots :
        /\ pc[i] = "done" /\ FileUpload(i)
        /\ req[i].image.type = << "x", "i", "m", "a", "g", "e", "/" >>
        /\ resp[i].status = 400
        /\ calls[i] = << >>

\* C6: a POST whose "image" entry is absent or is not a file is answered
\* with 400, never with 200 or 500.
C6_NoUsableImageIs400 ==
    \A i \in Slots :
        (pc[i] = "done" /\ req[i].method = "POST" /\ req[i].parses
            /\ req[i].image.kind # "file")
        => resp[i].status = 400

\* C7: every response carries the three CORS headers, and a 200 with a
\* prediction body answers only a POST.
C7_CorsOnEveryResponse ==
    \A i \in Slots :
        pc[i] = "done"
        => /\ { "Access-Control-Allow-Origin", "Access-Control-Allow-Methods",
                "Access-Control-Allow-Headers" } \subseteq DOMAIN resp[i].headers
           /\ resp[i].headers["Access-Control-Allow-Origin"] = "*"
           /\ resp[i].headers["Access-Control-Allow-Methods"]
                = "GET, POST, PUT, DELETE, OPTIONS"
           /\ resp[i].headers["Access-Control-Allow-Headers"]
                = "Content-Type, Authorization"
           /\ (resp[i].status = 200 /\ resp[i].body.kind = "prediction")
                => req[i].method = "POST"

\* C7 witness: a 405 and a caught-exception 500 are both waiting to be sent.
C7_Witness ==
    \E i, j \in Slots :
        /\ pc[i] = "done" /\ resp[i].status = 405
        /\ pc[j] = "done" /\ resp[j].status = 500

\* An invocation whose request has settled and that has not resumed yet:
\* fetch rejected or answered non-OK, or response.json() settled.
RequestSettled(j) ==
    /\ submits[j].at \in { "fetch", "json" }
    /\ submits[j].settled
    /\ submits[j].at = "fetch" => (submits[j].rejected \/ ~Ok(submits[j].status))

\* A settled invocation that is about to take the failure path.
RequestFailed(j) ==
    /\ RequestSettled(j)
    /\ submits[j].at = "json" => submits[j].rejected

\* C8: a handleSubmit that starts a request sets loading; once the request
\* settles, loading returns to false; a failed request sets the error
\* message and leaves the prediction alone; handleSubmit without a file sets
\* an error and neither sends a request nor touches loading.
C8_SubmitLifecycle ==
    /\ [][(\E j \in Invocations : submits[j] = Idle /\ submits'[j] # Idle)
            => loading']_vars
    /\ \A j \in Invocations : RequestSettled(j) ~> ~loading
    /\ [][\A j \in Invocations :
            (RequestFailed(j) /\ submits'[j] # submits[j])
            => /\ error' = "Failed to classify image. Please try again."
               /\ prediction' = prediction]_vars
    /\ [][(lastEvent' = "handleSubmit" /\ selectedFile = NoFile)
            => /\ error' = "Please select an image first"
               /\ submits' = submits
               /\ loading' = loading]_vars

\* C8 witness: a request has just failed after an earlier one succeeded:
\* the error is shown, loading is off, the earlier prediction is still there.
C8_Witness ==
    /\ lastEvent = "afterFetch"
    /\ error = "Failed to classify image. Please try again."
    /\ ~loading
    /\ prediction # NoPrediction
    /\ \A j \in Invocations : submits[j] = Idle

====
